---- MODULE Spec2Model ----
(***************************************************************************)
(* The CDK cost estimator (estimate-cost.js): a run parses a diff report   *)
(* and a resource map, walks the changed resources of every stack, prices  *)
(* them through the AWS Pricing API behind an in-memory cache, and prints  *)
(* a cost table.                                                           *)
(*                                                                         *)
(* Representation.  Money is counted in units of 1/10000 USD, so that the  *)
(* unit price 0.05 USD/h is 500 and 36.5 USD/month is 365000.  A JavaScript*)
(* value that may be null/undefined is a sequence of length 0 (null) or 1. *)
(* Property values are strings; JsNull stands for a null property value,   *)
(* as distinct from the strings "null", "undefined" and "".  A resource    *)
(* type is the sequence of its "::"-separated segments.  A row's id is the *)
(* position <<stack, resource>> of its resource in the report.             *)
(***************************************************************************)
EXTENDS Integers, Sequences, FiniteSets, TLC

\* ------------------------------------------------------------------------
\* Bounds of the model
\* ------------------------------------------------------------------------
MaxRes == 2         \* resource changes in a report, over all its stacks

\* ------------------------------------------------------------------------
\* Nullable values
\* ------------------------------------------------------------------------
Null == <<>>
Some(x) == <<x>>
JsNull == "<null>"

\* JavaScript truthiness of a string-or-null and of a number-or-null
TruthyStr(s) == s # JsNull /\ s # ""
TruthyNum(n) == n # Null /\ n[1] # 0
\* (x || 0) for a number-or-null x
OrZero(n) == IF TruthyNum(n) THEN n[1] ELSE 0

\* ------------------------------------------------------------------------
\* Resource types
\* ------------------------------------------------------------------------
EC2Instance == <<"AWS", "EC2", "Instance">>
EC2Volume == <<"AWS", "EC2", "Volume">>
HostedZone == <<"AWS", "Route53", "HostedZone">>
IAMRole == <<"AWS", "IAM", "Role">>
KMSAlias == <<"AWS", "KMS", "Alias">>
CustomThing == <<"Custom", "Thing">>
UnknownType == <<"Unknown">>

\* the type of a resource entry that has no type property (undefined)
NoType == << >>
HasType(res) == res.type # NoType

\* t.startsWith('_'): the segments of the model that begin with an underscore
UnderscoreSegments == {"_comment", "_free"}
StartsWithUnderscore(t) == t[1] \in UnderscoreSegments

shortType(t) == t[Len(t)]

\* ------------------------------------------------------------------------
\* The resource map (resource-map.json)
\* ------------------------------------------------------------------------
Filter(field, cfProperty, default) ==
    [Field |-> field, Value |-> [cfProperty |-> cfProperty, default |-> default]]

DefaultMap ==
    [_free |-> <<IAMRole, KMSAlias>>,
     rules |->
        (EC2Instance :>
            [serviceCode |-> "AmazonEC2", unit |-> "Hrs",
             monthlyHours |-> Some(730), monthlyQuantity |-> Null,
             filters |-> << Filter("instanceType", "InstanceType", JsNull),
                            Filter("operatingSystem", JsNull, "Linux") >>])
        @@ (EC2Volume :>
            [serviceCode |-> "AmazonEC2", unit |-> "GB-Mo",
             monthlyHours |-> Null, monthlyQuantity |-> Some(100),
             filters |-> << Filter("productFamily", JsNull, "Storage"),
                            Filter("volumeApiName", "VolumeType", "gp3") >>])
        @@ (HostedZone :>
            [serviceCode |-> "AmazonRoute53", unit |-> "HostedZone",
             monthlyHours |-> Null, monthlyQuantity |-> Null,
             filters |-> << Filter("productFamily", JsNull, "DNS Zone") >>])
        @@ (KMSAlias :>
            [serviceCode |-> "awskms", unit |-> "Keys",
             monthlyHours |-> Null, monthlyQuantity |-> Some(1),
             filters |-> << Filter("productFamily", JsNull, "Encryption Key") >>])]

\* a resource map whose rule for instances has no filters property
BrokenMap ==
    [_free |-> DefaultMap._free,
     rules |-> [t \in DOMAIN DefaultMap.rules |->
                  IF t = EC2Instance
                  THEN [serviceCode |-> "AmazonEC2", unit |-> "Hrs",
                        monthlyHours |-> Some(730), monthlyQuantity |-> Null]
                  ELSE DefaultMap.rules[t]]]

\* mapping.filters is defined
HasFilters(mapping) == "filters" \in DOMAIN mapping

\* variant: a type without a rule is priced with the rule for volumes
MappingOfOrVolume(map, t) ==
    IF t \in DOMAIN map.rules THEN Some(map.rules[t])
    ELSE IF EC2Volume \in DOMAIN map.rules THEN Some(map.rules[EC2Volume])
    ELSE Null

\* resourceMap[res.type]: the rule, or undefined
MappingOf(map, t) == IF t \in DOMAIN map.rules THEN Some(map.rules[t]) ELSE Null

\* variant: only the head of the free list is compared
InFreeListHead(map, t) == Len(map._free) > 0 /\ map._free[1] = t

\* variant: the free list is consulted for the types without a rule only
InFreeListUnlessRuled(map, t) ==
    (\E i \in 1..Len(map._free) : map._free[i] = t) /\ t \notin DOMAIN map.rules

\* (resourceMap._free || []).includes(t)
InFreeList(map, t) == \E i \in 1..Len(map._free) : map._free[i] = t

\* ------------------------------------------------------------------------
\* The diff report
\* ------------------------------------------------------------------------
Prop(name, old, new) ==
    [name |-> name, impact |-> "WILL_UPDATE", oldValue |-> old, newValue |-> new]

Res(type, action, properties) ==
    [type |-> type, action |-> action, properties |-> properties]

\* The resource changes a report is built from
Pool ==
    { Res(EC2Instance, "ADD", << Prop("InstanceType", JsNull, "small") >>),
      Res(EC2Instance, "REMOVE", << Prop("InstanceType", "small", JsNull) >>),
      Res(EC2Instance, "UPDATE", << Prop("InstanceType", "small", "large") >>),
      Res(EC2Instance, "UPDATE", << Prop("Tags", "a", "b") >>),
      Res(EC2Volume, "ADD", << Prop("VolumeType", JsNull, "null") >>),
      Res(KMSAlias, "ADD", << >>),
      Res(CustomThing, "ADD", << >>),
      Res(UnknownType, "UPDATE", << >>) }

ResourceSeqs(n) == UNION { [1..k -> Pool] : k \in 0..n }

\* the sequences of k resource lists that hold at most m resources together
RECURSIVE StackLists(_, _)
StackLists(k, m) ==
    IF k = 0 THEN { << >> }
    ELSE UNION { { <<rs>> \o rest : rest \in StackLists(k - 1, m - Len(rs)) } :
                 rs \in ResourceSeqs(m) }

\* the stacks a report may list, in order
StackNames == << "Net", "App" >>

Reports ==
    UNION { UNION { { [stacks |-> [i \in 1..k |->
                         [stackName |-> StackNames[i], hasDiff |-> h[i],
                          resources |-> rl[i]]]] :
                      h \in [1..k -> BOOLEAN] } :
                    rl \in StackLists(k, MaxRes) } :
            k \in 0..Len(StackNames) }

EmptyReport == [stacks |-> << >>]

\* What JSON.parse makes of an input text: the parsed value, or a SyntaxError
Text(ok, value) == [ok |-> ok, value |-> value]

\* ------------------------------------------------------------------------
\* Regions
\* ------------------------------------------------------------------------
Regions == {"eu-north-1"}

REGION_NAMES == [r \in {"us-east-1", "eu-north-1"} |->
                    IF r = "us-east-1" THEN "US East (N. Virginia)" ELSE "EU (Stockholm)"]

\* REGION_NAMES[region] || REGION_NAMES['us-east-1']
LocationName(r) ==
    IF r \in DOMAIN REGION_NAMES THEN REGION_NAMES[r] ELSE REGION_NAMES["us-east-1"]

\* ------------------------------------------------------------------------
\* Cache key
\* ------------------------------------------------------------------------
\* The field names of the model in localeCompare order
FieldOrder == << "instanceType", "operatingSystem", "productFamily", "volumeApiName" >>

FieldRank(f) == CHOOSE i \in 1..Len(FieldOrder) : FieldOrder[i] = f

\* a.localeCompare(b): negative, zero or positive
localeCompare(a, b) == FieldRank(a) - FieldRank(b)

\* Array.prototype.sort is stable: f goes after every element that does not
\* compare greater than it
InsertSorted(sorted, f) ==
    LET n == Cardinality({ i \in 1..Len(sorted) : localeCompare(sorted[i].Field, f.Field) <= 0 })
    IN  SubSeq(sorted, 1, n) \o << f >> \o SubSeq(sorted, n + 1, Len(sorted))

RECURSIVE SortByField(_)
SortByField(fs) ==
    IF fs = << >> THEN << >>
    ELSE InsertSorted(SortByField(SubSeq(fs, 1, Len(fs) - 1)), fs[Len(fs)])

\* JSON.stringify of the service code and the sorted filters; the record
\* stands for the string, which determines it and is determined by it
cacheKey(serviceCode, filters) ==
    [serviceCode |-> serviceCode, filters |-> SortByField(filters)]

\* ------------------------------------------------------------------------
\* Filter resolution
\* ------------------------------------------------------------------------
\* (properties || []).find(p => p.name === name): index of the first match, 0 if none
FindProp(properties, name) ==
    IF \E i \in 1..Len(properties) : properties[i].name = name
    THEN CHOOSE i \in 1..Len(properties) :
            /\ properties[i].name = name
            /\ \A j \in 1..(i - 1) : properties[j].name # name
    ELSE 0

\* variant: the strings 'null' and 'undefined' are taken as values
resolveFilterValueRaw(valueDef, properties, useNew) ==
    IF TruthyStr(valueDef.default) /\ ~TruthyStr(valueDef.cfProperty) THEN valueDef.default
    ELSE IF TruthyStr(valueDef.cfProperty) THEN
        LET i == FindProp(properties, valueDef.cfProperty)
            val == IF i = 0 THEN JsNull
                   ELSE IF useNew THEN properties[i].newValue ELSE properties[i].oldValue
        IN  IF i # 0 /\ TruthyStr(val) THEN val
            ELSE IF TruthyStr(valueDef.default) THEN valueDef.default ELSE JsNull
    ELSE JsNull

resolveFilterValue(valueDef, properties, useNew) ==
    IF TruthyStr(valueDef.default) /\ ~TruthyStr(valueDef.cfProperty) THEN valueDef.default
    ELSE IF TruthyStr(valueDef.cfProperty) THEN
        LET i == FindProp(properties, valueDef.cfProperty)
            val == IF i = 0 THEN JsNull
                   ELSE IF useNew THEN properties[i].newValue ELSE properties[i].oldValue
        IN  IF i # 0 /\ TruthyStr(val) /\ val # "null" /\ val # "undefined" THEN val
            ELSE IF TruthyStr(valueDef.default) THEN valueDef.default ELSE JsNull
    ELSE JsNull

RECURSIVE buildFiltersFrom(_, _, _, _)
buildFiltersFrom(filters, i, properties, useNew) ==
    IF i > Len(filters) THEN << >>
    ELSE LET value == resolveFilterValue(filters[i].Value, properties, useNew)
             rest == buildFiltersFrom(filters, i + 1, properties, useNew)
         IN  IF TruthyStr(value) THEN << [Field |-> filters[i].Field, Value |-> value] >> \o rest
             ELSE rest

buildFilters(mapping, properties, useNew) ==
    buildFiltersFrom(mapping.filters, 1, properties, useNew)

\* ------------------------------------------------------------------------
\* Monthly cost
\* ------------------------------------------------------------------------
\* variant: the monthly quantity goes before the monthly hours
monthlyCostQuantityFirst(unitPrice, mapping) ==
    IF TruthyNum(mapping.monthlyQuantity) THEN unitPrice * mapping.monthlyQuantity[1]
    ELSE IF TruthyNum(mapping.monthlyHours) THEN unitPrice * mapping.monthlyHours[1]
    ELSE unitPrice

\* variant: the monthly quantity is not applied
monthlyCostHoursOnly(unitPrice, mapping) ==
    IF TruthyNum(mapping.monthlyHours) THEN unitPrice * mapping.monthlyHours[1]
    ELSE unitPrice

monthlyCost(unitPrice, mapping) ==
    IF TruthyNum(mapping.monthlyHours) THEN unitPrice * mapping.monthlyHours[1]
    ELSE IF TruthyNum(mapping.monthlyQuantity) THEN unitPrice * mapping.monthlyQuantity[1]
    ELSE unitPrice

\* ------------------------------------------------------------------------
\* The Pricing API's answers
\* ------------------------------------------------------------------------
\* pricePerUnit.USD of a price dimension: absent, or a decimal string, which
\* is represented by the amount it denotes.  An offer has priceDimensions or
\* not, a product has terms.OnDemand or not.
Offer(dims) == [hasDims |-> TRUE, dims |-> dims]
NoDimsOffer == [hasDims |-> FALSE, dims |-> << >>]
Product(offers) == [hasOnDemand |-> TRUE, OnDemand |-> offers]
NoTermsProduct == [hasOnDemand |-> FALSE, OnDemand |-> << >>]

\* pricing.send either throws or resolves to a response with a PriceList
\* of at most MaxResults = 1 products
Failure == [error |-> TRUE, PriceList |-> << >>]
NoMatch == [error |-> FALSE, PriceList |-> << >>]
Found(product) == [error |-> FALSE, PriceList |-> << product >>]

\* the unit prices of the products of the model: 0.0084, 0.05 and 0.20 USD
UnitPrices == { 84, 500, 2000 }

\* the answers the service gives in the model
Responses ==
    { Failure, NoMatch, Found(NoTermsProduct),
      Found(Product(<< NoDimsOffer, Offer(<< Null, Some(0) >>) >>)) } \cup
    { Found(Product(<< NoDimsOffer, Offer(<< Some(0), Some(p) >>) >>)) : p \in UnitPrices }

\* parseFloat(usd || '0')
parseUsd(usd) == IF usd = Null THEN 0 ELSE usd[1]

\* variant: the first dimension with a USD price is taken, also a price of 0
RECURSIVE ScanDimsAnyPrice(_, _)
ScanDimsAnyPrice(dims, d) ==
    IF d > Len(dims) THEN Null
    ELSE IF dims[d] # Null THEN Some([usd |-> parseUsd(dims[d])])
    ELSE ScanDimsAnyPrice(dims, d + 1)

RECURSIVE ScanDims(_, _)
ScanDims(dims, d) ==
    IF d > Len(dims) THEN Null
    ELSE IF parseUsd(dims[d]) > 0 THEN Some([usd |-> parseUsd(dims[d])])
    ELSE ScanDims(dims, d + 1)

\* variant: only the first offer that has price dimensions is scanned
RECURSIVE ScanOffersFirstOnly(_, _)
ScanOffersFirstOnly(onDemand, o) ==
    IF o > Len(onDemand) THEN Null
    ELSE IF ~onDemand[o].hasDims THEN ScanOffersFirstOnly(onDemand, o + 1)
    ELSE ScanDims(onDemand[o].dims, 1)

RECURSIVE ScanOffers(_, _)
ScanOffers(onDemand, o) ==
    IF o > Len(onDemand) THEN Null
    ELSE IF ~onDemand[o].hasDims THEN ScanOffers(onDemand, o + 1)
    ELSE LET found == ScanDims(onDemand[o].dims, 1)
         IN  IF found # Null THEN found ELSE ScanOffers(onDemand, o + 1)

\* what queryPrice caches and returns for an answer: an entry or null
QuoteOf(resp) ==
    IF resp.error THEN Null
    ELSE IF Len(resp.PriceList) = 0 THEN Null
    ELSE LET product == resp.PriceList[1]
         IN  IF ~product.hasOnDemand THEN Null
             ELSE ScanOffers(product.OnDemand, 1)

\* the filters sent to the service: the resolved ones and the location
AllFilters(filters, location) ==
    [i \in 1..(Len(filters) + 1) |->
        IF i <= Len(filters)
        THEN [Type |-> "TERM_MATCH", Field |-> filters[i].Field, Value |-> filters[i].Value]
        ELSE [Type |-> "TERM_MATCH", Field |-> "location", Value |-> location]]

\* ------------------------------------------------------------------------
\* Formatting helpers
\* ------------------------------------------------------------------------
Abs(n) == IF n < 0 THEN 0 - n ELSE n

\* toLocaleString with two fraction digits: the amount in cents, rounded
\* half away from zero
RoundCents(n) == IF n < 0 THEN 0 - ((50 - n) \div 100) ELSE (n + 50) \div 100

fmt(n) == IF n = Null THEN [text |-> "-", cents |-> 0]
          ELSE [text |-> "$", cents |-> RoundCents(n[1])]

fmtDelta(n) ==
    IF n = Null THEN [text |-> "no cost data", cents |-> 0]
    ELSE IF Abs(n[1]) < 50 THEN [text |-> "~$0.00", cents |-> 0]
    ELSE [text |-> IF n[1] > 0 THEN "+$" ELSE "$", cents |-> RoundCents(n[1])]

\* ------------------------------------------------------------------------
\* State
\* ------------------------------------------------------------------------
VARIABLES
    diffJson,       \* args[0]: the text of the diff report
    mapFile,        \* the text of the file at args[1]
    region,         \* args[2]
    diffData,       \* the parsed report
    resourceMap,    \* the parsed resource map
    pc,             \* where the run stands
    si,             \* index of the stack the loop is in
    ri,             \* index of the resource the loop is at
    useNew,         \* direction of the lookup that is being made
    oldPrice,       \* result of the old-direction lookup of the resource
    newPrice,       \* result of the new-direction lookup of the resource
    pending,        \* key of the request queryPrice is awaiting, or null
    inflight,       \* keys of the requests sent to the Pricing API and not settled
    returns,        \* the calls of queryPrice that have returned, in order: the
                    \* resource and direction of the call, its arguments, its result
    priceCache,     \* the cache: key -> entry or null
    calls,          \* the requests sent to the Pricing API so far
    warnings,       \* the "[warn] Pricing API error" lines printed on stderr
    rows,
    totalDelta,
    pricedCount,
    freeCount,
    output,         \* the JSON lines printed on stdout
    firstRun,       \* what an earlier run on the same arguments ended with, or null
    fnArgs,         \* the arguments of a helper that is applied on its own, or null
    fnResult        \* what the helper returned, or null

vars == << diffJson, mapFile, region, diffData, resourceMap, pc, si, ri, useNew,
           oldPrice, newPrice, pending, inflight, returns, priceCache, calls, warnings,
           rows, totalDelta, pricedCount, freeCount, output, firstRun, fnArgs, fnResult >>

inputs == << diffJson, mapFile, region >>
parsed == << diffData, resourceMap >>
cursor == << si, ri >>
lookup == << useNew, oldPrice, newPrice, pending, inflight, returns >>
tallies == << rows, totalDelta, pricedCount, freeCount >>
harness == << firstRun, fnArgs, fnResult >>
program == << parsed, pc, cursor, lookup, priceCache, calls, warnings, tallies, output >>

EmptyMap == [_free |-> << >>, rules |-> [t \in {} |-> Null]]
EmptyCache == [k \in {} |-> Null]

\* the state of a process that has read its arguments and parsed nothing yet
Start ==
    /\ diffData = EmptyReport
    /\ resourceMap = EmptyMap
    /\ pc = "parse"
    /\ si = 1
    /\ ri = 1
    /\ useNew = FALSE
    /\ oldPrice = Null
    /\ newPrice = Null
    /\ pending = Null
    /\ inflight = << >>
    /\ returns = << >>
    /\ priceCache = EmptyCache
    /\ calls = << >>
    /\ warnings = << >>
    /\ rows = << >>
    /\ totalDelta = 0
    /\ pricedCount = 0
    /\ freeCount = 0
    /\ output = << >>

\* one run of the estimator on a report and a resource map
Init ==
    /\ diffJson \in { Text(TRUE, r) : r \in Reports } \cup { Text(FALSE, EmptyReport) }
    /\ mapFile \in { Text(TRUE, DefaultMap), Text(FALSE, EmptyMap) }
    /\ region \in Regions
    /\ Start
    /\ firstRun = Null
    /\ fnArgs = Null
    /\ fnResult = Null

\* the stack and the resource the loop is at
CurStack == diffData.stacks[si]
CurRes == CurStack.resources[ri]
AtStack == pc = "loop" /\ si <= Len(diffData.stacks)
\* variant: the resources of every stack are gone through
AtResourceOfAnyStack == AtStack /\ ri <= Len(CurStack.resources)
AtResource == AtStack /\ CurStack.hasDiff /\ ri <= Len(CurStack.resources)
CurMapping == MappingOf(resourceMap, CurRes.type)[1]
CurKey == cacheKey(CurMapping.serviceCode,
                   buildFilters(CurMapping, CurRes.properties, useNew))

\* ------------------------------------------------------------------------
\* Parsing the arguments
\* ------------------------------------------------------------------------
\* both texts parse: the run starts
ParseArgs ==
    /\ pc = "parse"
    /\ diffJson.ok /\ mapFile.ok
    /\ diffData' = diffJson.value
    /\ resourceMap' = mapFile.value
    /\ pc' = "loop"
    /\ UNCHANGED << harness, inputs, cursor, lookup, priceCache, calls, warnings,
                    tallies, output >>

\* variant: the error is printed and the run goes on
ParseFailsGoesOn ==
    /\ pc = "parse"
    /\ ~(diffJson.ok /\ mapFile.ok)
    /\ output' = Append(output, [markdown |-> Null, error |-> Some("parse error")])
    /\ pc' = "loop"
    /\ UNCHANGED << harness, inputs, parsed, cursor, lookup, priceCache, calls,
                    warnings, tallies >>

\* a text does not parse: the error is printed and the process exits
ParseFails ==
    /\ pc = "parse"
    /\ ~(diffJson.ok /\ mapFile.ok)
    /\ output' = Append(output, [markdown |-> Null, error |-> Some("parse error")])
    /\ pc' = "exit"
    /\ UNCHANGED << harness, inputs, parsed, cursor, lookup, priceCache, calls,
                    warnings, tallies >>

\* ------------------------------------------------------------------------
\* The loop over stacks and resources
\* ------------------------------------------------------------------------
\* variant: the loop does not move on from a stack without differences
SkipStackStays ==
    /\ AtStack
    /\ ~CurStack.hasDiff
    /\ si' = si
    /\ ri' = 1
    /\ UNCHANGED << harness, inputs, parsed, pc, lookup, priceCache, calls, warnings,
                    tallies, output >>

\* if (!stack.hasDiff) continue
SkipStack ==
    /\ AtStack
    /\ ~CurStack.hasDiff
    /\ si' = si + 1
    /\ ri' = 1
    /\ UNCHANGED << harness, inputs, parsed, pc, lookup, priceCache, calls, warnings,
                    tallies, output >>

\* the inner loop has run through the stack's resources
EndStack ==
    /\ AtStack
    /\ CurStack.hasDiff
    /\ ri > Len(CurStack.resources)
    /\ si' = si + 1
    /\ ri' = 1
    /\ UNCHANGED << harness, inputs, parsed, pc, lookup, priceCache, calls, warnings,
                    tallies, output >>

Skipped(t) == StartsWithUnderscore(t) \/ t = UnknownType

\* if (res.type.startsWith('_') || res.type === 'Unknown') continue
SkipResource ==
    /\ AtResource
    /\ HasType(CurRes)
    /\ Skipped(CurRes.type)
    /\ ri' = ri + 1
    /\ UNCHANGED << harness, inputs, parsed, pc, si, lookup, priceCache, calls,
                    warnings, tallies, output >>

\* variant: a resource of the free list is counted and taken off the list
\* of its stack
FreeResourceRemoved ==
    /\ AtResource
    /\ HasType(CurRes)
    /\ ~Skipped(CurRes.type)
    /\ InFreeList(resourceMap, CurRes.type)
    /\ freeCount' = freeCount + 1
    /\ diffData' = [diffData EXCEPT !.stacks[si].resources =
                        SubSeq(@, 1, ri - 1) \o SubSeq(@, ri + 1, Len(@))]
    /\ UNCHANGED << harness, inputs, resourceMap, pc, cursor, lookup, priceCache, calls,
                    warnings, rows, totalDelta, pricedCount, output >>

\* a resource of the free list is counted, and nothing else
FreeResource ==
    /\ AtResource
    /\ HasType(CurRes)
    /\ ~Skipped(CurRes.type)
    /\ InFreeList(resourceMap, CurRes.type)
    /\ freeCount' = freeCount + 1
    /\ ri' = ri + 1
    /\ UNCHANGED << harness, inputs, parsed, pc, si, lookup, priceCache, calls, warnings,
                    rows, totalDelta, pricedCount, output >>

Row(detail, before, after, delta) ==
    [stack |-> CurStack.stackName, id |-> << si, ri >>,
     type |-> shortType(CurRes.type), detail |-> detail, action |-> CurRes.action,
     before |-> before, after |-> after, delta |-> delta]

\* variant: a resource whose type has no mapping is passed over
UnmappedResourceDropped ==
    /\ AtResource
    /\ HasType(CurRes)
    /\ ~Skipped(CurRes.type)
    /\ ~InFreeList(resourceMap, CurRes.type)
    /\ MappingOf(resourceMap, CurRes.type) = Null
    /\ ri' = ri + 1
    /\ UNCHANGED << harness, inputs, parsed, pc, si, lookup, priceCache, calls, warnings,
                    tallies, output >>

\* a resource whose type has no mapping gets a row without costs
UnmappedResource ==
    /\ AtResource
    /\ HasType(CurRes)
    /\ ~Skipped(CurRes.type)
    /\ ~InFreeList(resourceMap, CurRes.type)
    /\ MappingOf(resourceMap, CurRes.type) = Null
    /\ rows' = Append(rows, Row("", Null, Null, Null))
    /\ ri' = ri + 1
    /\ UNCHANGED << harness, inputs, parsed, pc, si, lookup, priceCache, calls, warnings,
                    totalDelta, pricedCount, freeCount, output >>

\* variant: only a REMOVE is looked up in the old direction
StartPricingNewFirst ==
    /\ AtResource
    /\ HasType(CurRes)
    /\ ~Skipped(CurRes.type)
    /\ ~InFreeList(resourceMap, CurRes.type)
    /\ MappingOf(resourceMap, CurRes.type) # Null
    /\ oldPrice' = Null
    /\ newPrice' = Null
    /\ useNew' = (CurRes.action # "REMOVE")
    /\ pc' = IF CurRes.action \in {"ADD", "REMOVE", "UPDATE"} THEN "query" ELSE "finish"
    /\ UNCHANGED << harness, inputs, parsed, cursor, pending, inflight, returns, priceCache,
                    calls, warnings, tallies, output >>

\* a resource with a mapping: its costs start as null and its first lookup
\* is in the new direction for an ADD, in the old direction otherwise
StartPricing ==
    /\ AtResource
    /\ HasType(CurRes)
    /\ ~Skipped(CurRes.type)
    /\ ~InFreeList(resourceMap, CurRes.type)
    /\ MappingOf(resourceMap, CurRes.type) # Null
    /\ oldPrice' = Null
    /\ newPrice' = Null
    /\ useNew' = (CurRes.action = "ADD")
    /\ pc' = IF CurRes.action \in {"ADD", "REMOVE", "UPDATE"} THEN "query" ELSE "finish"
    /\ UNCHANGED << harness, inputs, parsed, cursor, pending, inflight, returns, priceCache,
                    calls, warnings, tallies, output >>

\* ------------------------------------------------------------------------
\* queryPrice
\* ------------------------------------------------------------------------
\* variant: a lookup that returns no quote ends the run
ReturnedOrAbort(price) ==
    /\ returns' = Append(returns,
          [id |-> << si, ri >>, useNew |-> useNew,
           serviceCode |-> CurMapping.serviceCode,
           filters |-> buildFilters(CurMapping, CurRes.properties, useNew),
           price |-> price])
    /\ IF useNew THEN newPrice' = price /\ oldPrice' = oldPrice
                 ELSE oldPrice' = price /\ newPrice' = newPrice
    /\ IF price = Null
       THEN useNew' = useNew /\ pc' = "exit"
       ELSE IF CurRes.action = "UPDATE" /\ ~useNew
            THEN useNew' = TRUE /\ pc' = "query"
            ELSE useNew' = useNew /\ pc' = "finish"

\* where main goes on when the lookup in direction useNew has returned: an
\* UPDATE makes its new-direction lookup after the old-direction one
Returned(price) ==
    /\ returns' = Append(returns,
          [id |-> << si, ri >>, useNew |-> useNew,
           serviceCode |-> CurMapping.serviceCode,
           filters |-> buildFilters(CurMapping, CurRes.properties, useNew),
           price |-> price])
    /\ IF useNew THEN newPrice' = price /\ oldPrice' = oldPrice
                 ELSE oldPrice' = price /\ newPrice' = newPrice
    /\ IF CurRes.action = "UPDATE" /\ ~useNew
       THEN useNew' = TRUE /\ pc' = "query"
       ELSE useNew' = useNew /\ pc' = "finish"

\* variant: the cache is never consulted
CacheNeverHas(cache, key) == FALSE

\* priceCache.has(key)
CacheHas(cache, key) == key \in DOMAIN cache

\* variant: only quotes are cached, not the lookups without one
CacheSetQuotesOnly(cache, key, entry) ==
    IF entry = Null THEN cache
    ELSE [k \in DOMAIN cache \cup {key} |-> IF k = key THEN entry ELSE cache[k]]

\* priceCache.set(key, entry)
CacheSet(cache, key, entry) ==
    [k \in DOMAIN cache \cup {key} |-> IF k = key THEN entry ELSE cache[k]]

\* the request for the key leaves the requests in flight
Settle(keys, key) ==
    LET i == CHOOSE j \in 1..Len(keys) :
                keys[j] = key /\ \A h \in 1..(j - 1) : keys[h] # key
    IN  SubSeq(keys, 1, i - 1) \o SubSeq(keys, i + 1, Len(keys))

\* the key is in the cache: its entry is returned
QueryPriceHit ==
    /\ pc = "query"
    /\ HasFilters(CurMapping)
    /\ CacheHas(priceCache, CurKey)
    /\ Returned(priceCache[CurKey])
    /\ UNCHANGED << harness, inputs, parsed, cursor, pending, inflight, priceCache, calls,
                    warnings, tallies, output >>

\* the key is not in the cache: a GetProducts request is sent and awaited
QueryPriceSend ==
    /\ pc = "query"
    /\ HasFilters(CurMapping)
    /\ ~CacheHas(priceCache, CurKey)
    /\ calls' = Append(calls,
          [ServiceCode |-> CurMapping.serviceCode,
           Filters |-> AllFilters(buildFilters(CurMapping, CurRes.properties, useNew),
                                  LocationName(region)),
           MaxResults |-> 1])
    /\ pending' = Some(CurKey)
    /\ inflight' = Append(inflight, CurKey)
    /\ pc' = "await"
    /\ UNCHANGED << harness, inputs, parsed, cursor, useNew, oldPrice, newPrice, returns,
                    priceCache, warnings, tallies, output >>

\* the service answers a query as it answered it in an earlier run, if there
\* was one: with the outcome that run cached for the key
AnswersAsBefore(key, resp) ==
    IF firstRun = Null THEN TRUE
    ELSE IF key \notin DOMAIN firstRun[1].priceCache THEN TRUE
    ELSE QuoteOf(resp) = firstRun[1].priceCache[key]

\* the request is answered or fails: the outcome is cached and returned
PricingResponds ==
    /\ pc = "await"
    /\ \E resp \in Responses :
          /\ AnswersAsBefore(pending[1], resp)
          /\ priceCache' = CacheSet(priceCache, pending[1], QuoteOf(resp))
          /\ warnings' = IF resp.error THEN Append(warnings, CurMapping.serviceCode)
                         ELSE warnings
          /\ Returned(QuoteOf(resp))
    /\ pending' = Null
    /\ inflight' = Settle(inflight, pending[1])
    /\ UNCHANGED << harness, inputs, parsed, cursor, calls, tallies, output >>

\* ------------------------------------------------------------------------
\* The row of a priced resource
\* ------------------------------------------------------------------------
CostOf(price, mapping) ==
    IF price # Null THEN Some(monthlyCost(price[1].usd, mapping)) ELSE Null

\* variant: a REMOVE gets no before cost
BeforeCostOfUpdate(res, mapping, old) ==
    IF res.action = "UPDATE"
    THEN (IF old # Null THEN Some(monthlyCost(old[1].usd, mapping)) ELSE Null)
    ELSE Null

\* beforeCost and afterCost, by action
BeforeCost(res, mapping, old) ==
    IF res.action \in {"REMOVE", "UPDATE"} THEN CostOf(old, mapping) ELSE Null

AfterCost(res, mapping, new) ==
    IF res.action \in {"ADD", "UPDATE"} THEN CostOf(new, mapping) ELSE Null

\* variant: an UPDATE is counted when both its lookups returned a quote
PricedBoth(res, old, new) ==
    \/ res.action = "ADD" /\ new # Null
    \/ res.action = "REMOVE" /\ old # Null
    \/ res.action = "UPDATE" /\ (old # Null /\ new # Null)

\* whether pricedCount++ is run
Priced(res, old, new) ==
    \/ res.action = "ADD" /\ new # Null
    \/ res.action = "REMOVE" /\ old # Null
    \/ res.action = "UPDATE" /\ (old # Null \/ new # Null)

\* variant: only the increases are added up
AccumulateIncreases(total, delta) ==
    IF delta # Null /\ delta[1] > 0 THEN total + delta[1] ELSE total

\* if (delta != null) totalDelta += delta
Accumulate(total, delta) == IF delta # Null THEN total + delta[1] ELSE total

\* variant: the delta is rounded to cents
DeltaRounded(beforeCost, afterCost) ==
    IF beforeCost # Null \/ afterCost # Null
    THEN Some(RoundCents(OrZero(afterCost) - OrZero(beforeCost)) * 100)
    ELSE Null

\* variant: a delta needs both costs
DeltaBothPriced(beforeCost, afterCost) ==
    IF beforeCost # Null /\ afterCost # Null
    THEN Some(OrZero(afterCost) - OrZero(beforeCost))
    ELSE Null

\* variant: a delta of 0 is taken as no delta
DeltaOrNull(beforeCost, afterCost) ==
    IF (beforeCost # Null \/ afterCost # Null) /\ OrZero(afterCost) # OrZero(beforeCost)
    THEN Some(OrZero(afterCost) - OrZero(beforeCost))
    ELSE Null

\* (beforeCost != null || afterCost != null) ? (afterCost || 0) - (beforeCost || 0) : null
Delta(beforeCost, afterCost) ==
    IF beforeCost # Null \/ afterCost # Null
    THEN Some(OrZero(afterCost) - OrZero(beforeCost))
    ELSE Null

\* variant: the loop over the filters has no break
RECURSIVE DetailFromLast(_, _, _)
DetailFromLast(filters, i, properties) ==
    IF i > Len(filters) THEN ""
    ELSE LET p == IF TruthyStr(filters[i].Value.cfProperty)
                  THEN FindProp(properties, filters[i].Value.cfProperty) ELSE 0
             rest == DetailFromLast(filters, i + 1, properties)
         IN  IF /\ rest = ""
                /\ p # 0
                /\ TruthyStr(properties[p].oldValue)
                /\ TruthyStr(properties[p].newValue)
                /\ properties[p].oldValue # properties[p].newValue
             THEN properties[p].oldValue \o " -> " \o properties[p].newValue
             ELSE rest

\* the detail of an UPDATE: old and new value of the first filter property
\* that has both and whose values differ
RECURSIVE DetailFrom(_, _, _)
DetailFrom(filters, i, properties) ==
    IF i > Len(filters) THEN ""
    ELSE LET p == IF TruthyStr(filters[i].Value.cfProperty)
                  THEN FindProp(properties, filters[i].Value.cfProperty) ELSE 0
         IN  IF /\ p # 0
                /\ TruthyStr(properties[p].oldValue)
                /\ TruthyStr(properties[p].newValue)
                /\ properties[p].oldValue # properties[p].newValue
             THEN properties[p].oldValue \o " -> " \o properties[p].newValue
             ELSE DetailFrom(filters, i + 1, properties)

Detail(res, mapping) ==
    IF res.action = "UPDATE" THEN DetailFrom(mapping.filters, 1, res.properties) ELSE ""

\* the lookups of the resource have returned: costs, delta, total and row
FinishResource ==
    /\ pc = "finish"
    /\ LET beforeCost == BeforeCost(CurRes, CurMapping, oldPrice)
           afterCost == AfterCost(CurRes, CurMapping, newPrice)
           delta == Delta(beforeCost, afterCost)
       IN  /\ pricedCount' = IF Priced(CurRes, oldPrice, newPrice)
                             THEN pricedCount + 1 ELSE pricedCount
           /\ totalDelta' = Accumulate(totalDelta, delta)
           /\ rows' = Append(rows, Row(Detail(CurRes, CurMapping), beforeCost, afterCost, delta))
    /\ ri' = ri + 1
    /\ pc' = "loop"
    /\ UNCHANGED << harness, inputs, parsed, si, lookup, priceCache, calls, warnings,
                    freeCount, output >>

\* ------------------------------------------------------------------------
\* The output
\* ------------------------------------------------------------------------
TableLine(r) ==
    [stack |-> r.stack, id |-> r.id, type |-> r.type, detail |-> r.detail,
     action |-> r.action, before |-> fmt(r.before), after |-> fmt(r.after),
     delta |-> fmtDelta(r.delta)]

\* variant: the rows without a before cost are counted
UnmappedNoBefore(rs) == Cardinality({ i \in 1..Len(rs) : rs[i].before = Null })

\* rows.filter(r => r.delta === null).length
Unmapped(rs) == Cardinality({ i \in 1..Len(rs) : rs[i].delta = Null })

Markdown ==
    IF Len(rows) = 0
    THEN [empty |-> TRUE, impact |-> fmtDelta(Null), table |-> << >>,
          unmapped |-> 0, free |-> 0, location |-> LocationName(region)]
    ELSE [empty |-> FALSE, impact |-> fmtDelta(Some(totalDelta)),
          table |-> [i \in 1..Len(rows) |-> TableLine(rows[i])],
          unmapped |-> Unmapped(rows), free |-> freeCount,
          location |-> LocationName(region)]

\* the loop is over: the markdown is printed
Render ==
    /\ pc = "loop"
    /\ si > Len(diffData.stacks)
    /\ output' = Append(output, [markdown |-> Some(Markdown), error |-> Null])
    /\ pc' = "done"
    /\ UNCHANGED << harness, inputs, parsed, cursor, lookup, priceCache, calls,
                    warnings, tallies >>

\* ------------------------------------------------------------------------
\* Errors thrown in main
\* ------------------------------------------------------------------------
\* main().catch: the error is printed with an empty markdown, and main is over
Caught(message) ==
    /\ output' = Append(output, [markdown |-> Null, error |-> Some(message)])
    /\ pc' = "failed"
    /\ UNCHANGED << harness, inputs, parsed, cursor, lookup, priceCache, calls,
                    warnings, tallies >>

\* res.type.startsWith of a resource entry without a type throws a TypeError
TypeThrows ==
    /\ AtResource
    /\ ~HasType(CurRes)
    /\ Caught("type error")

\* the loop of buildFilters over the filters of a rule that has none throws
\* a TypeError
FiltersThrow ==
    /\ pc = "query"
    /\ ~HasFilters(CurMapping)
    /\ Caught("type error")

Next ==
    \/ ParseArgs
    \/ ParseFails
    \/ SkipStack
    \/ EndStack
    \/ SkipResource
    \/ FreeResource
    \/ UnmappedResource
    \/ StartPricing
    \/ QueryPriceHit
    \/ QueryPriceSend
    \/ PricingResponds
    \/ FinishResource
    \/ Render

Spec == Init /\ [][Next]_vars

\* ------------------------------------------------------------------------
\* Runs on inputs that may be malformed
\* ------------------------------------------------------------------------
\* a resource entry without a type
Typeless == Res(NoType, "ADD", << >>)

\* reports of one stack: at most one resource change, and then possibly an
\* entry without a type
InputReports ==
    { [stacks |-> << [stackName |-> StackNames[1], hasDiff |-> h,
                      resources |-> first \o last] >>] :
        h \in BOOLEAN,
        first \in { << >> } \cup { << r >> : r \in Pool },
        last \in { << >>, << Typeless >> } }

InputInit ==
    /\ diffJson \in { Text(TRUE, r) : r \in InputReports } \cup { Text(FALSE, EmptyReport) }
    /\ mapFile \in { Text(TRUE, DefaultMap), Text(TRUE, BrokenMap), Text(FALSE, EmptyMap) }
    /\ region \in Regions
    /\ Start
    /\ firstRun = Null
    /\ fnArgs = Null
    /\ fnResult = Null

InputNext ==
    \/ Next
    \/ TypeThrows
    \/ FiltersThrow

InputSpec == InputInit /\ [][InputNext]_vars

\* ------------------------------------------------------------------------
\* Runs that are carried on
\* ------------------------------------------------------------------------
\* reports of two stacks with one resource change each, the second of which
\* is flagged as having differences
PairReports ==
    { [stacks |-> << [stackName |-> StackNames[1], hasDiff |-> g, resources |-> << q >>],
                     [stackName |-> StackNames[2], hasDiff |-> TRUE, resources |-> << r >>] >>] :
        g \in BOOLEAN, q \in Pool, r \in Pool }

\* a run on a report of two stacks and the resource map
PairInit ==
    /\ diffJson \in { Text(TRUE, r) : r \in PairReports }
    /\ mapFile = Text(TRUE, DefaultMap)
    /\ region \in Regions
    /\ Start
    /\ firstRun = Null
    /\ fnArgs = Null
    /\ fnResult = Null

\* a run on inputs that may be malformed, or on a report of two stacks
FairInit == InputInit \/ PairInit

FairNext == InputNext

\* the process is not held up: main runs on as long as it has a statement
\* to run, and the pricing service answers, or fails, every request it is
\* sent
FairSpec == FairInit /\ [][FairNext]_vars /\ WF_vars(FairNext)

\* ------------------------------------------------------------------------
\* Two runs on the same arguments
\* ------------------------------------------------------------------------
\* what a run that is over leaves behind
Outcome ==
    [rows |-> rows, totalDelta |-> totalDelta, output |-> output, priceCache |-> priceCache]

\* variant: the total lives on from the first run
RunAgainKeepsTotal ==
    /\ pc \in {"done", "exit"}
    /\ firstRun = Null
    /\ firstRun' = Some(Outcome)
    /\ diffData' = EmptyReport /\ resourceMap' = EmptyMap
    /\ pc' = "parse"
    /\ si' = 1 /\ ri' = 1
    /\ useNew' = FALSE /\ oldPrice' = Null /\ newPrice' = Null
    /\ pending' = Null /\ inflight' = << >> /\ returns' = << >>
    /\ priceCache' = EmptyCache
    /\ calls' = << >> /\ warnings' = << >>
    /\ rows' = << >> /\ totalDelta' = totalDelta /\ pricedCount' = 0 /\ freeCount' = 0
    /\ output' = << >>
    /\ UNCHANGED << inputs, fnArgs, fnResult >>

\* the script is started a second time on the same arguments: a new
\* process, with an empty cache and main's accumulators at their start
RunAgain ==
    /\ pc \in {"done", "exit"}
    /\ firstRun = Null
    /\ firstRun' = Some(Outcome)
    /\ diffData' = EmptyReport /\ resourceMap' = EmptyMap
    /\ pc' = "parse"
    /\ si' = 1 /\ ri' = 1
    /\ useNew' = FALSE /\ oldPrice' = Null /\ newPrice' = Null
    /\ pending' = Null /\ inflight' = << >> /\ returns' = << >>
    /\ priceCache' = EmptyCache
    /\ calls' = << >> /\ warnings' = << >>
    /\ rows' = << >> /\ totalDelta' = 0 /\ pricedCount' = 0 /\ freeCount' = 0
    /\ output' = << >>
    /\ UNCHANGED << inputs, fnArgs, fnResult >>

\* the reports of one stack
TwiceReports == { r \in Reports : Len(r.stacks) = 1 }

TwiceInit ==
    /\ diffJson \in { Text(TRUE, r) : r \in TwiceReports } \cup { Text(FALSE, EmptyReport) }
    /\ mapFile \in { Text(TRUE, DefaultMap), Text(FALSE, EmptyMap) }
    /\ region \in Regions
    /\ Start
    /\ firstRun = Null
    /\ fnArgs = Null
    /\ fnResult = Null

TwiceNext ==
    \/ Next
    \/ RunAgain

TwiceSpec == TwiceInit /\ [][TwiceNext]_vars

\* ------------------------------------------------------------------------
\* The helpers applied on their own
\* ------------------------------------------------------------------------
\* the value definitions of a filter: a property name or none, a default or none
ValueDefs ==
    { [cfProperty |-> c, default |-> d] :
        c \in { JsNull, "", "InstanceType" }, d \in { JsNull, "", "Linux" } }

\* the rules buildFilters is applied to: one filter, or two
FilterLists ==
    { << [Field |-> "instanceType", Value |-> v] >> : v \in ValueDefs } \cup
    { << [Field |-> "instanceType", Value |-> v],
         [Field |-> "operatingSystem", Value |-> w] >> : v, w \in ValueDefs }

\* the values of a property change: null, the empty string, the strings
\* 'null' and 'undefined', and two instance types
PropValues == { JsNull, "", "null", "undefined", "small", "large" }

PropertyLists ==
    { << >>, << Prop("Tags", "a", "b") >> } \cup
    { << Prop("InstanceType", o, n) >> : o, n \in PropValues } \cup
    { << Prop("Tags", "a", "b"), Prop("InstanceType", o, n) >> : o, n \in PropValues }

BuildFiltersArgs ==
    { [fn |-> "buildFilters", mapping |-> [filters |-> fs], properties |-> ps, useNew |-> d] :
        fs \in FilterLists, ps \in PropertyLists, d \in BOOLEAN }

\* the rules monthlyCost is applied to: the multipliers the generated map
\* uses, each present or not
MonthlyCostArgs ==
    { [fn |-> "monthlyCost", unitPrice |-> u,
       mapping |-> [monthlyHours |-> h, monthlyQuantity |-> q]] :
        u \in UnitPrices,
        h \in { Null, Some(730), Some(20) },
        q \in { Null, Some(100), Some(1) } }

\* the resources and rules the detail is made of: one or two filters that
\* name a property or none, and at most two property changes
DetailFilters ==
    { [Field |-> "f", Value |-> [cfProperty |-> c, default |-> JsNull]] :
        c \in { JsNull, "InstanceType", "VolumeType" } }

DetailProps ==
    { Prop(n, o, v) : n \in { "InstanceType", "VolumeType" },
                      o \in { JsNull, "", "small", "large" },
                      v \in { JsNull, "", "small", "large" } }

DetailArgs ==
    { [fn |-> "detail", res |-> Res(EC2Instance, a, ps), mapping |-> [filters |-> fs]] :
        a \in { "ADD", "REMOVE", "UPDATE" },
        ps \in { << >> } \cup { << x >> : x \in DetailProps }
                \cup { << x, y >> : x, y \in DetailProps },
        fs \in { << f >> : f \in DetailFilters } \cup { << f, g >> : f, g \in DetailFilters } }

\* the answers queryPrice scans: a failure, no product, a product without
\* on-demand terms, and products of up to two offers, each without price
\* dimensions or with up to two, whose USD price is absent, 0 or positive
DimPrices == { Null, Some(0), Some(84), Some(500) }

OfferShapes ==
    { NoDimsOffer, Offer(<< >>) } \cup
    { Offer(<< a >>) : a \in DimPrices } \cup
    { Offer(<< a, b >>) : a, b \in DimPrices }

Answers ==
    { Failure, NoMatch, Found(NoTermsProduct), Found(Product(<< >>)) } \cup
    { Found(Product(<< o >>)) : o \in OfferShapes } \cup
    { Found(Product(<< o, q >>)) : o, q \in OfferShapes }

QueryPriceArgs == { [fn |-> "queryPrice", resp |-> r] : r \in Answers }

\* the resolved filters cacheKey is applied to: up to two, of two fields
\* with two values each; a rule may name a field twice
KeyFilters ==
    { [Field |-> f, Value |-> v] : f \in { "instanceType", "operatingSystem" },
                                   v \in { "small", "large" } }

KeyFilterLists ==
    { << >> } \cup { << f >> : f \in KeyFilters } \cup { << f, g >> : f, g \in KeyFilters }

KeyCalls ==
    { [serviceCode |-> c, filters |-> fs] :
        c \in { "AmazonEC2", "AmazonRDS" }, fs \in KeyFilterLists }

\* two calls of cacheKey
CacheKeyArgs == { [fn |-> "cacheKey", one |-> a, other |-> b] : a, b \in KeyCalls }

FnInit ==
    /\ diffJson = Text(FALSE, EmptyReport)
    /\ mapFile = Text(FALSE, EmptyMap)
    /\ region \in Regions
    /\ Start
    /\ firstRun = Null
    /\ fnArgs \in { Some(a) : a \in BuildFiltersArgs \cup MonthlyCostArgs \cup DetailArgs
                                      \cup QueryPriceArgs \cup CacheKeyArgs }
    /\ fnResult = Null

Applying(fn) == fnArgs # Null /\ fnResult = Null /\ fnArgs[1].fn = fn

ApplyBuildFilters ==
    /\ Applying("buildFilters")
    /\ fnResult' = Some(buildFilters(fnArgs[1].mapping, fnArgs[1].properties, fnArgs[1].useNew))
    /\ UNCHANGED << firstRun, fnArgs, inputs, program >>

ApplyMonthlyCost ==
    /\ Applying("monthlyCost")
    /\ fnResult' = Some(monthlyCost(fnArgs[1].unitPrice, fnArgs[1].mapping))
    /\ UNCHANGED << firstRun, fnArgs, inputs, program >>

ApplyDetail ==
    /\ Applying("detail")
    /\ fnResult' = Some(Detail(fnArgs[1].res, fnArgs[1].mapping))
    /\ UNCHANGED << firstRun, fnArgs, inputs, program >>

\* what queryPrice makes of the service's answer to its request
ApplyQueryPrice ==
    /\ Applying("queryPrice")
    /\ fnResult' = Some(QuoteOf(fnArgs[1].resp))
    /\ UNCHANGED << firstRun, fnArgs, inputs, program >>

\* the keys of two calls of cacheKey
ApplyCacheKey ==
    /\ Applying("cacheKey")
    /\ fnResult' = Some(<< cacheKey(fnArgs[1].one.serviceCode, fnArgs[1].one.filters),
                           cacheKey(fnArgs[1].other.serviceCode, fnArgs[1].other.filters) >>)
    /\ UNCHANGED << firstRun, fnArgs, inputs, program >>

FnNext ==
    \/ ApplyCacheKey
    \/ ApplyQueryPrice
    \/ ApplyBuildFilters
    \/ ApplyMonthlyCost
    \/ ApplyDetail

FnSpec == FnInit /\ [][FnNext]_vars

\* ------------------------------------------------------------------------
\* Vocabulary of the properties
\* ------------------------------------------------------------------------
\* the types of the map's free list
FreeTypes(map) == { map._free[i] : i \in 1..Len(map._free) }

\* the types the loop passes over without a row or a tally
IgnoredType(t) == t = << "Unknown" >> \/ t[1] \in UnderscoreSegments

\* the positions of the resources of the report that are due a row: those of
\* the stacks with differences that are neither passed over nor free
DueRows ==
    UNION { { << s, r >> : r \in { q \in 1..Len(diffData.stacks[s].resources) :
                                     LET t == diffData.stacks[s].resources[q].type
                                     IN  ~IgnoredType(t) /\ t \notin FreeTypes(resourceMap) } } :
            s \in { u \in 1..Len(diffData.stacks) : diffData.stacks[u].hasDiff } }

\* v ?? 0
NullToZero(v) == IF v = Null THEN 0 ELSE v[1]

\* the multiplier of a rule: its monthly hours, else its monthly quantity, else 1
RuleMultiplier(rule) ==
    IF rule.monthlyHours # Null THEN rule.monthlyHours[1]
    ELSE IF rule.monthlyQuantity # Null THEN rule.monthlyQuantity[1]
    ELSE 1

RECURSIVE SumDeltas(_)
SumDeltas(rs) ==
    IF rs = << >> THEN 0
    ELSE SumDeltas(SubSeq(rs, 1, Len(rs) - 1)) + NullToZero(rs[Len(rs)].delta)

InputsParse == diffJson.ok /\ mapFile.ok

\* the row the step appends, and the last results of queryPrice before it
NewRow == rows'[Len(rows')]
LastReturn == returns[Len(returns)]
ReturnBeforeLast == returns[Len(returns) - 1]

\* the (field, value) pairs of a list of filters
FilterSet(filters) == { << filters[i].Field, filters[i].Value >> : i \in 1..Len(filters) }

\* the pair of a call of queryPrice: the service code and the resolved filters
PairOf(ret) == << ret.serviceCode, FilterSet(ret.filters) >>

\* the pair of a request: the filters it carries besides the location
PairOfCall(call) ==
    << call.ServiceCode, FilterSet(call.Filters) \ { << "location", LocationName(region) >> } >>

\* the requests sent for a pair
CallsFor(pair) == { i \in 1..Len(calls) : PairOfCall(calls[i]) = pair }

\* ------------------------------------------------------------------------
\* Properties
\* ------------------------------------------------------------------------
\* C1: over inputs that parse, no outcome of a pricing lookup ends the run:
\* the process exits early, or prints an error, only when an input text does
\* not parse, and a finished run has printed one markdown result that holds
\* one row for every resource due a row, whatever its lookups returned, with
\* the total of the deltas that were priced.
Isolation ==
    /\ pc = "exit" => ~InputsParse
    /\ \A i \in 1..Len(output) : output[i].error # Null => ~InputsParse
    /\ pc = "done" =>
          /\ Len(output) = 1
          /\ output[1].markdown # Null
          /\ { rows[i].id : i \in 1..Len(rows) } = DueRows
          /\ Len(rows) = Cardinality(DueRows)
          /\ Len(rows) > 0 => Len(output[1].markdown[1].table) = Len(rows)
          /\ totalDelta = SumDeltas(rows)

\* a finished run in which a lookup failed with a service error, the
\* resource it was for is unpriced, and the next resource is priced
IsolationWitness ==
    /\ pc = "done"
    /\ Len(warnings) = 1
    /\ Len(rows) = 2
    /\ rows[1].type = "Instance" /\ rows[1].delta = Null
    /\ rows[2].delta # Null

\* C2: at most one request is ever sent to the pricing service for a service
\* code and a list of resolved filters, and exactly one for every pair that
\* some call of queryPrice was made for.
Caching ==
    /\ \A i, j \in 1..Len(calls) : PairOfCall(calls[i]) = PairOfCall(calls[j]) => i = j
    /\ \A n \in 1..Len(returns) : Cardinality(CallsFor(PairOf(returns[n]))) = 1

\* two resources have been priced with the same pair, by one request
CachingWitness ==
    /\ pc = "done"
    /\ Len(rows) = 2
    /\ rows[1].action = "ADD" /\ rows[2].action = "REMOVE"
    /\ Len(returns) = 2
    /\ PairOf(returns[1]) = PairOf(returns[2])
    /\ returns[1].price # Null
    /\ Len(calls) = 1

\* C3: no two requests in flight are for the same key; the calls of
\* queryPrice for one pair all return the same result; and every request
\* sent is either in flight or the only one of a pair that has returned, so
\* that no call of queryPrice sends a second request for its pair.
SingleFlight ==
    /\ \A i, j \in 1..Len(inflight) : inflight[i] = inflight[j] => i = j
    /\ \A i, j \in 1..Len(returns) :
          PairOf(returns[i]) = PairOf(returns[j]) => returns[i].price = returns[j].price
    /\ Len(calls) = Len(inflight)
          + Cardinality({ PairOf(returns[n]) : n \in 1..Len(returns) })

\* a request is in flight after a second requester of another key has been
\* served the result of the first
SingleFlightWitness ==
    /\ Len(inflight) = 1
    /\ Len(returns) = 2
    /\ PairOf(returns[1]) = PairOf(returns[2])
    /\ Len(calls) = 2

\* what the step at a free resource does
FreeStep ==
    (AtResource /\ CurRes.type \in FreeTypes(resourceMap)) =>
        /\ freeCount' = freeCount + 1
        /\ rows' = rows
        /\ totalDelta' = totalDelta
        /\ pricedCount' = pricedCount
        /\ calls' = calls /\ returns' = returns /\ priceCache' = priceCache
        /\ pc' = "loop" /\ si' = si /\ ri' = ri + 1

\* C4: the step at a resource whose type is on the free list adds one to
\* freeCount and moves to the next resource; it emits no row, leaves
\* totalDelta and pricedCount alone, and makes no lookup.
FreeSkipsPricing == [][FreeStep]_vars

\* a finished run that counted a free resource and gave the other one a row
FreeWitness ==
    /\ pc = "done"
    /\ freeCount = 1
    /\ Len(rows) = 1
    /\ \E s \in 1..Len(diffData.stacks) :
          /\ diffData.stacks[s].hasDiff
          /\ Len(diffData.stacks[s].resources) = 2

\* the row without costs of the resource at a position
UnmappedRowOf(s, r) ==
    [stack |-> diffData.stacks[s].stackName, id |-> << s, r >>,
     type |-> LET t == diffData.stacks[s].resources[r].type IN t[Len(t)],
     detail |-> "", action |-> diffData.stacks[s].resources[r].action,
     before |-> Null, after |-> Null, delta |-> Null]

UnmappedStep ==
    /\ rows' = Append(rows, UnmappedRowOf(si, ri))
    /\ totalDelta' = totalDelta
    /\ pricedCount' = pricedCount /\ freeCount' = freeCount
    /\ calls' = calls
    /\ pc' = "loop" /\ si' = si /\ ri' = ri + 1

NoRuleNotFree ==
    /\ AtResource
    /\ HasType(CurRes)
    /\ CurRes.type \notin DOMAIN resourceMap.rules
    /\ CurRes.type \notin FreeTypes(resourceMap)

\* C5 as stated: the step at a resource whose type has no rule and is not
\* on the free list appends a row with null before, after and delta, leaves
\* totalDelta alone and moves to the next resource.
UnmappedAlwaysRow == [][NoRuleNotFree => UnmappedStep]_vars

\* C5 as amended: the same of a resource whose type is neither "Unknown" nor
\* begins with an underscore; a resource of such a type is passed over
\* without a row or a tally.
UnmappedRow ==
    [][/\ (NoRuleNotFree /\ ~IgnoredType(CurRes.type)) => UnmappedStep
       /\ (AtResource /\ IgnoredType(CurRes.type)) =>
             /\ rows' = rows /\ totalDelta' = totalDelta
             /\ pricedCount' = pricedCount /\ freeCount' = freeCount
             /\ calls' = calls
             /\ pc' = "loop" /\ si' = si /\ ri' = ri + 1]_vars

\* a finished run over an unmapped resource and a resource of type Unknown:
\* one row, without costs
UnmappedWitness ==
    /\ pc = "done"
    /\ \E s \in 1..Len(diffData.stacks) :
          /\ diffData.stacks[s].hasDiff
          /\ Len(diffData.stacks[s].resources) = 2
          /\ diffData.stacks[s].resources[1].type = << "Custom", "Thing" >>
          /\ diffData.stacks[s].resources[2].type = << "Unknown" >>
    /\ Len(rows) = 1
    /\ rows[1].type = "Thing"
    /\ rows[1].before = Null /\ rows[1].after = Null /\ rows[1].delta = Null
    /\ totalDelta = 0

\* the step that appends the row of a resource with a rule
RowStep(action) == pc = "finish" /\ CurRes.action = action

\* C6: the row of an ADD resource whose lookup returned a quote has a null
\* before, an after of the quote's unit price times the rule's multiplier,
\* and a delta equal to the after.
AddRow ==
    [][(RowStep("ADD") /\ LastReturn.price # Null) =>
          /\ Len(rows') = Len(rows) + 1
          /\ NewRow.action = "ADD"
          /\ NewRow.before = Null
          /\ NewRow.after = Some(LastReturn.price[1].usd * RuleMultiplier(CurMapping))
          /\ NewRow.delta = NewRow.after]_vars

\* an added instance quoted at 0.0084 USD/h: after and delta are 6.132 USD
AddRowWitness ==
    \E i \in 1..Len(rows) :
        /\ rows[i].action = "ADD" /\ rows[i].type = "Instance"
        /\ rows[i].before = Null
        /\ rows[i].after = Some(61320)
        /\ rows[i].delta = Some(61320)

\* C7: the row of a REMOVE resource whose lookup returned a quote has a null
\* after, a before of the quote's unit price times the rule's multiplier,
\* and a delta equal to minus the before.
RemoveRow ==
    [][(RowStep("REMOVE") /\ LastReturn.price # Null) =>
          /\ Len(rows') = Len(rows) + 1
          /\ NewRow.action = "REMOVE"
          /\ NewRow.after = Null
          /\ NewRow.before = Some(LastReturn.price[1].usd * RuleMultiplier(CurMapping))
          /\ NewRow.delta = Some(0 - NewRow.before[1])]_vars

\* a removed instance quoted at 0.05 USD/h: before 36.5 USD, delta -36.5 USD
RemoveRowWitness ==
    \E i \in 1..Len(rows) :
        /\ rows[i].action = "REMOVE"
        /\ rows[i].after = Null
        /\ rows[i].before = Some(365000)
        /\ rows[i].delta = Some(0 - 365000)

\* C8: the row of an UPDATE resource whose two lookups returned quotes has
\* a before of the old unit price times the rule's multiplier, an after of
\* the new unit price times the multiplier, and a delta of exactly the
\* after minus the before.
UpdateRow ==
    [][(/\ RowStep("UPDATE")
        /\ ReturnBeforeLast.price # Null
        /\ LastReturn.price # Null) =>
          /\ Len(rows') = Len(rows) + 1
          /\ NewRow.action = "UPDATE"
          /\ NewRow.before = Some(ReturnBeforeLast.price[1].usd * RuleMultiplier(CurMapping))
          /\ NewRow.after = Some(LastReturn.price[1].usd * RuleMultiplier(CurMapping))
          /\ NewRow.delta = Some(NewRow.after[1] - NewRow.before[1])]_vars

\* the instance changed from small, 0.05 USD/h, to large, 0.20 USD/h, at 730
\* hours: before 36.5, after 146.0, delta 109.5 USD
UpdateRowWitness ==
    \E i \in 1..Len(rows) :
        /\ rows[i].action = "UPDATE"
        /\ rows[i].detail = "small -> large"
        /\ rows[i].before = Some(365000)
        /\ rows[i].after = Some(1460000)
        /\ rows[i].delta = Some(1095000)

\* C9: in every row, delta is null exactly when before and after are both
\* null, and otherwise is after, or 0 when null, minus before, or 0 when null.
DeltaOfRow ==
    \A i \in 1..Len(rows) :
        /\ rows[i].delta = Null <=> (rows[i].before = Null /\ rows[i].after = Null)
        /\ rows[i].delta # Null =>
              rows[i].delta[1] = NullToZero(rows[i].after) - NullToZero(rows[i].before)

\* an UPDATE priced in the new direction only: its delta is its after
DeltaOfRowWitness ==
    \E i \in 1..Len(rows) :
        /\ rows[i].action = "UPDATE"
        /\ rows[i].before = Null
        /\ rows[i].after # Null
        /\ rows[i].delta = rows[i].after

\* C10: at every point of the run totalDelta is the sum of the non-null
\* deltas of the rows emitted so far, and so 0 while no row has a delta.
TotalIsSum ==
    /\ totalDelta = SumDeltas(rows)
    /\ (\A i \in 1..Len(rows) : rows[i].delta = Null) => totalDelta = 0

\* a finished run with a row without delta, whose total is the negative
\* delta of its other row
TotalIsSumWitness ==
    /\ pc = "done"
    /\ Len(rows) = 2
    /\ rows[1].delta = Null
    /\ rows[2].delta # Null /\ rows[2].delta[1] < 0
    /\ totalDelta = rows[2].delta[1]

\* the positions of the resources of the stacks with differences
Walked ==
    UNION { { << s, r >> : r \in 1..Len(diffData.stacks[s].resources) } :
            s \in { u \in 1..Len(diffData.stacks) : diffData.stacks[u].hasDiff } }

TypeAt(p) == diffData.stacks[p[1]].resources[p[2]].type
ActionAt(p) == diffData.stacks[p[1]].resources[p[2]].action

\* the resource at a position has a pricing rule; a lookup made for it
\* returned a quote
HasRule(p) == TypeAt(p) \in DOMAIN resourceMap.rules
Quoted(p) == \E n \in 1..Len(returns) : returns[n].id = p /\ returns[n].price # Null

\* the resources without a map entry, or with a rule and no quote in any
\* direction: among all the resources that are not free, and among those
\* that are due a row
UnpricedOfAll ==
    { p \in Walked : TypeAt(p) \notin FreeTypes(resourceMap) /\ (~HasRule(p) \/ ~Quoted(p)) }
Unpriced == { p \in DueRows : ~HasRule(p) \/ ~Quoted(p) }

\* the unpriced count a finished run reports: that of its note, which is
\* left out when the count is 0
UnpricedCount == output[1].markdown[1].unmapped

RowsOutside(ids) == SelectSeq(rows, LAMBDA r : r.id \notin ids)

\* C11 as stated: the unpriced count of a finished run is the number of
\* resources that have no map entry, or a rule and no quote in any
\* direction; none of them adds to totalDelta or to pricedCount.
UnpricedTallyOfAll ==
    pc = "done" =>
        /\ UnpricedCount = Cardinality(UnpricedOfAll)
        /\ totalDelta = SumDeltas(RowsOutside(UnpricedOfAll))
        /\ pricedCount = Len(RowsOutside(UnpricedOfAll))

\* C11 as amended: the same count over the resources that are due a row,
\* those of the stacks with differences that are not free and whose type is
\* neither "Unknown" nor begins with an underscore.
UnpricedTally ==
    pc = "done" =>
        /\ UnpricedCount = Cardinality(Unpriced)
        /\ \A i \in 1..Len(rows) : rows[i].id \in Unpriced => rows[i].delta = Null
        /\ totalDelta = SumDeltas(RowsOutside(Unpriced))
        /\ pricedCount = Len(RowsOutside(Unpriced))

\* a finished run over a resource without a map entry and a resource with a
\* rule whose lookup found nothing: both are counted, the totals are 0
UnpricedTallyWitness ==
    /\ pc = "done"
    /\ Len(rows) = 2
    /\ ~HasRule(rows[1].id)
    /\ HasRule(rows[2].id) /\ ~Quoted(rows[2].id)
    /\ Len(returns) > 0
    /\ UnpricedCount = 2
    /\ totalDelta = 0 /\ pricedCount = 0

\* what a row says of the outcome of its resource, besides naming it
Marking(r) == [detail |-> r.detail, before |-> r.before, after |-> r.after, delta |-> r.delta]

\* C12: the row of a resource whose type has no map entry is marked
\* differently from the row of a resource that has a rule and whose lookups
\* returned no quote, and the unpriced count of a finished run is the count
\* of the resources without a map entry.
NoMappingDistinct ==
    /\ \A i, j \in 1..Len(rows) :
          (~HasRule(rows[i].id) /\ HasRule(rows[j].id) /\ ~Quoted(rows[j].id)) =>
              Marking(rows[i]) # Marking(rows[j])
    /\ pc = "done" =>
          UnpricedCount = Cardinality({ i \in 1..Len(rows) : ~HasRule(rows[i].id) })

\* the resource changes the run reads: those of the stacks with differences
\* of the report as given
ReadChanges ==
    IF diffJson.ok
    THEN UNION { { diffJson.value.stacks[s].resources[r] :
                     r \in 1..Len(diffJson.value.stacks[s].resources) } :
                 s \in { u \in 1..Len(diffJson.value.stacks) :
                            diffJson.value.stacks[u].hasDiff } }
    ELSE { }

\* the rule that a resource change is priced with, if it is priced
RuleRead(res) ==
    IF /\ mapFile.ok
       /\ res.type # << >>
       /\ ~IgnoredType(res.type)
       /\ res.type \notin FreeTypes(mapFile.value)
       /\ res.type \in DOMAIN mapFile.value.rules
       /\ res.action \in {"ADD", "REMOVE", "UPDATE"}
    THEN << mapFile.value.rules[res.type] >> ELSE << >>

\* an input is malformed: its text is not JSON, or a resource entry that
\* the run reads has no type, or a rule that the run prices with has no
\* filters
Malformed ==
    \/ ~diffJson.ok
    \/ ~mapFile.ok
    \/ \E res \in ReadChanges : res.type = << >>
    \/ \E res \in ReadChanges :
          RuleRead(res) # << >> /\ "filters" \notin DOMAIN RuleRead(res)[1]

Over == pc \in {"done", "exit", "failed"}
Failed == pc \in {"exit", "failed"}

\* the only output is an error with a message, without markdown
ErrorOnly ==
    /\ Len(output) = 1
    /\ output[1].error # << >>
    /\ output[1].error[1] # ""
    /\ output[1].markdown = << >>

Applied(fn) == fnArgs # << >> /\ fnResult # << >> /\ fnArgs[1].fn = fn

\* the first property change of a name, if any, and its value in a direction
FirstNamed(props, name) ==
    LET at == { i \in 1..Len(props) : props[i].name = name }
    IN  IF at = { } THEN << >>
        ELSE << props[CHOOSE i \in at : \A j \in at : i <= j] >>

ValueIn(prop, new) == IF new THEN prop.newValue ELSE prop.oldValue

\* a filter takes its value from a property; it has a default
FromProperty(valueDef) == valueDef.cfProperty \notin { JsNull, "" }
HasDefault(valueDef) == valueDef.default \notin { JsNull, "" }

\* a value that is empty or null-like
NullLike(v) == v \in { JsNull, "", "null", "undefined" }

\* what a filter resolves to in a direction: a value, or nothing
Resolution(valueDef, props, new) ==
    LET prop == IF FromProperty(valueDef) THEN FirstNamed(props, valueDef.cfProperty)
                ELSE << >>
    IN  IF prop # << >> /\ ~NullLike(ValueIn(prop[1], new)) THEN << ValueIn(prop[1], new) >>
        ELSE IF HasDefault(valueDef) THEN << valueDef.default >>
        ELSE << >>

\* the filters of a query: those that resolve to something, in order
Resolved(filters, props, new) ==
    LET kept == SelectSeq(filters, LAMBDA f : Resolution(f.Value, props, new) # << >>)
    IN  [i \in 1..Len(kept) |->
            [Field |-> kept[i].Field, Value |-> Resolution(kept[i].Value, props, new)[1]]]

\* C14: buildFilters returns, in the rule's order, one filter for every
\* filter of the rule that resolves to something: the old or new value of
\* the property it names, by direction, when that value is not empty or
\* null-like, else its default; a filter with neither is left out, and no
\* filter is returned with an empty or null value.
FilterResolution ==
    Applied("buildFilters") =>
        /\ fnResult[1] = Resolved(fnArgs[1].mapping.filters, fnArgs[1].properties,
                                  fnArgs[1].useNew)
        /\ \A i \in 1..Len(fnResult[1]) : fnResult[1][i].Value \notin { JsNull, "" }

\* a filter without default whose property has the new value 'null' is
\* left out in the new direction, next to a filter that has its default
FilterResolutionWitness ==
    /\ Applied("buildFilters")
    /\ fnArgs[1].useNew
    /\ Len(fnArgs[1].mapping.filters) = 2
    /\ fnArgs[1].mapping.filters[1].Value = [cfProperty |-> "InstanceType", default |-> JsNull]
    /\ fnArgs[1].mapping.filters[2].Value = [cfProperty |-> JsNull, default |-> "Linux"]
    /\ fnArgs[1].properties = << Prop("InstanceType", "small", "null") >>
    /\ fnResult[1] = << [Field |-> "operatingSystem", Value |-> "Linux"] >>

\* the rule and the property changes of the resource at a position
RuleAt(p) == resourceMap.rules[TypeAt(p)]
PropsAt(p) == diffData.stacks[p[1]].resources[p[2]].properties

\* the calls of queryPrice that have returned for the resource at a
\* position, in a direction
ReturnsFor(p, new) == { n \in 1..Len(returns) : returns[n].id = p /\ returns[n].useNew = new }

\* what the lookups made and the rows written so far show of the direction
\* each resource is priced in
DirectionsKept ==
    /\ \A n \in 1..Len(returns) :
          /\ ActionAt(returns[n].id) = "ADD" => returns[n].useNew
          /\ ActionAt(returns[n].id) = "REMOVE" => ~returns[n].useNew
          /\ returns[n].filters = Resolved(RuleAt(returns[n].id).filters,
                                           PropsAt(returns[n].id), returns[n].useNew)
    /\ \A i \in 1..Len(rows) :
          /\ rows[i].action = "ADD" => rows[i].before = Null
          /\ rows[i].action = "REMOVE" => rows[i].after = Null
          /\ HasRule(rows[i].id) =>
                /\ Cardinality(ReturnsFor(rows[i].id, FALSE)) =
                      (IF rows[i].action \in {"REMOVE", "UPDATE"} THEN 1 ELSE 0)
                /\ Cardinality(ReturnsFor(rows[i].id, TRUE)) =
                      (IF rows[i].action \in {"ADD", "UPDATE"} THEN 1 ELSE 0)
                /\ \A o \in ReturnsFor(rows[i].id, FALSE) :
                      \A n \in ReturnsFor(rows[i].id, TRUE) : o < n
                /\ rows[i].before # Null <=>
                      \E o \in ReturnsFor(rows[i].id, FALSE) : returns[o].price # Null
                /\ rows[i].after # Null <=>
                      \E n \in ReturnsFor(rows[i].id, TRUE) : returns[n].price # Null

\* C15: at every point of a run, every lookup is made with the filters of
\* its direction; the lookups
\* of an ADD are in the new direction and those of a REMOVE in the old one;
\* the row of an ADD, of a REMOVE and of an UPDATE with a rule follows one
\* new-direction lookup, one old-direction lookup, and one old-direction and
\* then one new-direction lookup; its before is null exactly when there is no
\* old-direction quote and its after exactly when there is no new-direction
\* quote, so that before is null in every ADD row and after in every REMOVE
\* row.
PricingDirection == []DirectionsKept

\* an UPDATE whose old-direction lookup, for the small instance, returned
\* a quote and whose new-direction lookup, for the large one, returned none
PricingDirectionWitness ==
    \E i \in 1..Len(rows) :
        /\ rows[i].action = "UPDATE"
        /\ rows[i].before # Null /\ rows[i].after = Null
        /\ \E o \in ReturnsFor(rows[i].id, FALSE) : \E n \in ReturnsFor(rows[i].id, TRUE) :
              /\ << "instanceType", "small" >> \in FilterSet(returns[o].filters)
              /\ << "instanceType", "large" >> \in FilterSet(returns[n].filters)

\* C16: monthlyCost returns the unit price times the rule's monthly hours
\* when the rule has them, else times its monthly quantity when it has one,
\* else the unit price itself.
MonthlyCostOfQuote ==
    Applied("monthlyCost") =>
        LET unit == fnArgs[1].unitPrice
            hours == fnArgs[1].mapping.monthlyHours
            quantity == fnArgs[1].mapping.monthlyQuantity
        IN  fnResult[1] = IF hours # Null THEN unit * hours[1]
                          ELSE IF quantity # Null THEN unit * quantity[1]
                          ELSE unit

\* 0.0084 USD a unit under a rule with a quantity of 100 and no hours is
\* 0.84 USD a month
MonthlyCostOfQuoteWitness ==
    /\ Applied("monthlyCost")
    /\ fnArgs[1].unitPrice = 84
    /\ fnArgs[1].mapping = [monthlyHours |-> Null, monthlyQuantity |-> Some(100)]
    /\ fnResult = Some(8400)

\* a filter names a property whose first change has an old and a new value
\* that differ
ShowsChange(filter, props) ==
    /\ FromProperty(filter.Value)
    /\ FirstNamed(props, filter.Value.cfProperty) # << >>
    /\ LET prop == FirstNamed(props, filter.Value.cfProperty)[1]
       IN  /\ prop.oldValue \notin { JsNull, "" }
           /\ prop.newValue \notin { JsNull, "" }
           /\ prop.oldValue # prop.newValue

\* C17: the detail of an UPDATE is the old and the new value of the
\* property named by the first filter of the rule, in the rule's order, that
\* names a property whose old and new value both exist and differ, and is
\* empty when there is no such filter; the detail of an ADD and of a REMOVE
\* is empty.
ChangeDetail ==
    Applied("detail") =>
        LET filters == fnArgs[1].mapping.filters
            props == fnArgs[1].res.properties
            shown == { i \in 1..Len(filters) : ShowsChange(filters[i], props) }
        IN  IF fnArgs[1].res.action = "UPDATE" /\ shown # { }
            THEN LET first == CHOOSE i \in shown : \A j \in shown : i <= j
                     prop == FirstNamed(props, filters[first].Value.cfProperty)[1]
                 IN  fnResult[1] = prop.oldValue \o " -> " \o prop.newValue
            ELSE fnResult[1] = ""

\* an UPDATE whose rule names the volume type, which has no old value, and
\* then the instance type, which changes: the detail is that of the second
\* filter
ChangeDetailWitness ==
    /\ Applied("detail")
    /\ fnArgs[1].res.action = "UPDATE"
    /\ Len(fnArgs[1].mapping.filters) = 2
    /\ fnArgs[1].mapping.filters[1].Value.cfProperty = "VolumeType"
    /\ fnArgs[1].mapping.filters[2].Value.cfProperty = "InstanceType"
    /\ fnArgs[1].res.properties = << Prop("InstanceType", "small", "large"),
                                     Prop("VolumeType", JsNull, "large") >>
    /\ fnResult = Some("small -> large")

\* C18: a second run on the same report, resource map and region, started
\* with an empty cache against a service that answers each query as it did
\* in the first run, ends with the rows, the total and the output of the
\* first run.
Determinism ==
    (firstRun # Null /\ pc \in {"done", "exit"}) =>
        /\ rows = firstRun[1].rows
        /\ totalDelta = firstRun[1].totalDelta
        /\ output = firstRun[1].output

\* a second run that is over, which sent a request of its own and has two
\* rows, one priced and one not
DeterminismWitness ==
    /\ firstRun # Null
    /\ pc = "done"
    /\ Len(calls) > 0
    /\ Len(rows) = 2
    /\ rows[1].delta = Null /\ rows[2].delta # Null
    /\ totalDelta # 0

\* the USD prices of the price dimensions of the product an answer holds
PricesOf(resp) ==
    IF resp.error \/ Len(resp.PriceList) = 0 THEN { }
    ELSE LET offers == resp.PriceList[1].OnDemand
         IN  UNION { { offers[o].dims[d][1] :
                         d \in { e \in 1..Len(offers[o].dims) : offers[o].dims[e] # Null } } :
                     o \in 1..Len(offers) }

\* C19 as stated: a lookup whose answer holds a product priced at zero
\* returns a quote with the unit price 0, and a lookup returns no quote only
\* when its answer holds no priced product.
ZeroPriceIsQuote ==
    Applied("queryPrice") =>
        /\ PricesOf(fnArgs[1].resp) = { 0 } =>
              (fnResult[1] # Null /\ fnResult[1][1].usd = 0)
        /\ fnResult[1] = Null => PricesOf(fnArgs[1].resp) = { }

\* C19 as amended: a lookup returns a quote exactly when its answer holds a
\* product with a USD price above zero, and the unit price of a quote is
\* above zero; a lookup whose answer holds a product priced at zero returns
\* no quote, as does a lookup whose answer holds no product.
ZeroPriceIsNoQuote ==
    Applied("queryPrice") =>
        /\ fnResult[1] # Null <=> \E x \in PricesOf(fnArgs[1].resp) : x > 0
        /\ fnResult[1] # Null =>
              (fnResult[1][1].usd > 0 /\ fnResult[1][1].usd \in PricesOf(fnArgs[1].resp))
        /\ PricesOf(fnArgs[1].resp) = { 0 } => fnResult[1] = Null

\* the answer holds a product with one offer priced at 0 USD: no quote
ZeroPriceWitness ==
    /\ Applied("queryPrice")
    /\ fnArgs[1].resp = Found(Product(<< Offer(<< Some(0) >>) >>))
    /\ fnResult[1] = Null

\* the resource at a position has a rule and is not on the free list
RuleApplies(p) == HasRule(p) /\ TypeAt(p) \notin FreeTypes(resourceMap)

\* what the lookups made and the requests sent so far show of the
\* resources they were made for
CallsAreRuled ==
    /\ \A n \in 1..Len(returns) : RuleApplies(returns[n].id)
    /\ \A c \in 1..Len(calls) :
          \/ \E n \in 1..Len(returns) : PairOf(returns[n]) = PairOfCall(calls[c])
          \/ /\ c = Len(calls)
             /\ pc = "await"
             /\ PairOfCall(calls[c]) =
                   << RuleAt(<< si, ri >>).serviceCode,
                      FilterSet(Resolved(RuleAt(<< si, ri >>).filters, PropsAt(<< si, ri >>), useNew)) >>
    /\ pc \in {"query", "await"} => RuleApplies(<< si, ri >>)

\* C20: at every point of a run, every call of queryPrice is for a
\* resource that has a rule and is not on the free list; every request sent to the pricing service is the
\* request of such a call, one that has returned or the one that is
\* awaited; and while a call is made the loop is at such a resource.
CallsHaveRules == []CallsAreRuled

\* a finished run over a resource of the free list, whose type also has a
\* rule, and a resource without a rule: no request was sent
CallsHaveRulesWitness ==
    /\ pc = "done"
    /\ freeCount = 1
    /\ Len(rows) = 1 /\ ~HasRule(rows[1].id)
    /\ \E p \in Walked : HasRule(p) /\ TypeAt(p) \in FreeTypes(resourceMap)
    /\ calls = << >> /\ returns = << >>

\* what is read of the arguments once they are parsed
ReportRead == diffJson.value
MapRead == mapFile.value

\* C21: a run changes neither the report nor the resource map nor the
\* region: no step changes an argument, no step after the parsing changes
\* what was parsed, and from the parsing on the report and the map, free list
\* and filters of every rule included, are what was read.
InputsKept ==
    /\ [][ /\ UNCHANGED << diffJson, mapFile, region >>
           /\ pc # "parse" => UNCHANGED << diffData, resourceMap >> ]_vars
    /\ [](pc \notin {"parse", "exit"} => diffData = ReportRead /\ resourceMap = MapRead)

\* a finished run that counted a free resource, looked a price up, cached
\* it and wrote a row, over a report and a map that are as they were read
InputsKeptWitness ==
    /\ pc = "done"
    /\ freeCount = 1
    /\ Len(rows) = 1 /\ rows[1].delta # Null
    /\ Len(calls) = 1
    /\ DOMAIN priceCache # { }
    /\ diffData = ReportRead
    /\ Len(diffData.stacks) = 1 /\ Len(diffData.stacks[1].resources) = 2
    /\ resourceMap = MapRead
    /\ resourceMap.rules[TypeAt(rows[1].id)].filters = DefaultMap.rules[EC2Instance].filters

\* the stack at an index is flagged as having differences
Flagged(s) == diffData.stacks[s].hasDiff

\* the resources of the flagged stacks that are on the free list and not
\* passed over
FreeOfFlagged ==
    UNION { { << s, r >> : r \in { q \in 1..Len(diffData.stacks[s].resources) :
                                     LET t == diffData.stacks[s].resources[q].type
                                     IN  ~IgnoredType(t) /\ t \in FreeTypes(resourceMap) } } :
            s \in { u \in 1..Len(diffData.stacks) : Flagged(u) } }

\* C22: a stack that is not flagged as having differences is passed over
\* whole: the step at such a stack moves on to the next stack and leaves
\* the rows, the tallies, the total, the cache and the requests as they
\* are; no row and no lookup is ever for a resource of such a stack, no
\* lookup is under way at one, and the free count of a finished run is that
\* of the free resources of the flagged stacks.
FlaggedStacksOnly ==
    /\ [][ (AtStack /\ ~Flagged(si)) =>
             /\ si' = si + 1
             /\ UNCHANGED << rows, totalDelta, pricedCount, freeCount, priceCache, calls,
                             returns, pc >> ]_vars
    /\ []( /\ \A i \in 1..Len(rows) : Flagged(rows[i].id[1])
           /\ \A n \in 1..Len(returns) : Flagged(returns[n].id[1])
           /\ pc \in {"query", "await", "finish"} => Flagged(si)
           /\ pc = "done" => freeCount = Cardinality(FreeOfFlagged) )

\* a finished run over a stack that is not flagged and lists an instance,
\* and a flagged stack with one instance: one row, one request, one priced
FlaggedStacksOnlyWitness ==
    /\ pc = "done"
    /\ Len(diffData.stacks) = 2
    /\ ~Flagged(1) /\ Flagged(2)
    /\ Len(diffData.stacks[1].resources) = 1
    /\ diffData.stacks[1].resources[1].type = EC2Instance
    /\ Len(rows) = 1 /\ rows[1].id = << 2, 1 >> /\ rows[1].delta # Null
    /\ Len(calls) = 1
    /\ Len(returns) = 1
    /\ freeCount = 0 /\ pricedCount = 1

\* how often a (field, value) pair occurs in a list of filters
Occurrences(filters, pair) ==
    Cardinality({ i \in 1..Len(filters) : << filters[i].Field, filters[i].Value >> = pair })

\* two lists of filters hold the same (field, value) pairs, in some order
SamePairs(fs, gs) ==
    \A pair \in FilterSet(fs) \cup FilterSet(gs) : Occurrences(fs, pair) = Occurrences(gs, pair)

\* the values a list of filters gives a field
ValuesOf(filters, field) ==
    { filters[i].Value : i \in { j \in 1..Len(filters) : filters[j].Field = field } }

\* two lists of filters differ in the value of some field
DifferInValue(fs, gs) ==
    \E f \in { fs[i].Field : i \in 1..Len(fs) } \cup { gs[i].Field : i \in 1..Len(gs) } :
        ValuesOf(fs, f) # ValuesOf(gs, f)

\* C23 as stated: two calls of cacheKey with the same service code and the
\* same (field, value) pairs, in whatever order, give the same key, and two
\* calls that differ in the service code or in the value of a field give
\* different keys.
CanonicalKey ==
    Applied("cacheKey") =>
        LET a == fnArgs[1].one
            b == fnArgs[1].other
        IN  /\ (a.serviceCode = b.serviceCode /\ SamePairs(a.filters, b.filters)) =>
                  fnResult[1][1] = fnResult[1][2]
            /\ (a.serviceCode # b.serviceCode \/ DifferInValue(a.filters, b.filters)) =>
                  fnResult[1][1] # fnResult[1][2]

\* the resource at a position is on the free list and has a rule as well
FreeAndRuled(p) == TypeAt(p) \in FreeTypes(resourceMap) /\ HasRule(p)

\* C24: a resource whose type is on the free list and has a rule as well is
\* treated as free: it never gets a row, no lookup is ever made or under
\* way for it, and a finished run has counted it as free, with every other
\* free resource of the stacks it went through.
FreeBeforeRule ==
    []( /\ \A i \in 1..Len(rows) : ~FreeAndRuled(rows[i].id)
        /\ \A n \in 1..Len(returns) : ~FreeAndRuled(returns[n].id)
        /\ pc \in {"query", "await", "finish"} => ~FreeAndRuled(<< si, ri >>)
        /\ pc = "done" => freeCount = Cardinality(FreeOfFlagged) )

\* a finished run over a key alias, which is free and has a rule, and an
\* instance: the alias is counted as free, the instance has the only row
\* and the only lookup
FreeBeforeRuleWitness ==
    /\ pc = "done"
    /\ \E p \in FreeOfFlagged : FreeAndRuled(p) /\ TypeAt(p) = KMSAlias
    /\ freeCount = 1
    /\ Len(rows) = 1 /\ TypeAt(rows[1].id) = EC2Instance /\ rows[1].delta # Null
    /\ Len(returns) = 1 /\ returns[1].id = rows[1].id
    /\ Len(calls) = 1 /\ calls[1].ServiceCode = "AmazonEC2"

\* the USD prices of the price dimensions of a list of offers, in the order
\* of the offers and of the dimensions of each; a dimension without a USD
\* price counts as 0
RECURSIVE PricesInOrder(_)
PricesInOrder(offers) ==
    IF offers = << >> THEN << >>
    ELSE LET dims == offers[1].dims
         IN  [d \in 1..Len(dims) |-> IF dims[d] = Null THEN 0 ELSE dims[d][1]]
                 \o PricesInOrder(Tail(offers))

\* the first price above zero of a list of prices, or none
FirstAboveZero(prices) ==
    IF \E i \in 1..Len(prices) : prices[i] > 0
    THEN << prices[CHOOSE i \in 1..Len(prices) :
                     prices[i] > 0 /\ \A j \in 1..(i - 1) : prices[j] <= 0] >>
    ELSE << >>

\* C25: when a product matches, the quote is made of the first USD price
\* above zero that is met going through the on-demand offers of the first
\* product in their order and through the price dimensions of each in
\* theirs; when the product has no on-demand terms, or none of its
\* dimensions has a price above zero, there is no quote.
QuoteSelection ==
    (Applied("queryPrice") /\ ~fnArgs[1].resp.error /\ Len(fnArgs[1].resp.PriceList) > 0) =>
        LET product == fnArgs[1].resp.PriceList[1]
            first == IF product.hasOnDemand
                     THEN FirstAboveZero(PricesInOrder(product.OnDemand)) ELSE << >>
        IN  /\ first # << >> => fnResult[1] # Null /\ fnResult[1][1].usd = first[1]
            /\ first = << >> => fnResult[1] = Null

\* a product of two offers: the only price of the first is zero, the
\* second has two prices above zero, and the quote has the first of them
QuoteSelectionWitness ==
    /\ Applied("queryPrice")
    /\ fnArgs[1].resp = Found(Product(<< Offer(<< Some(0) >>), Offer(<< Some(500), Some(84) >>) >>))
    /\ fnResult[1] # Null
    /\ fnResult[1][1].usd = 500

\* the rows of the resource at a position, and the rows without a delta
RowsOf(p) == { i \in 1..Len(rows) : rows[i].id = p }
RowsWithoutDelta == { i \in 1..Len(rows) : rows[i].delta = Null }

\* the resources of the flagged stacks whose type is not passed over
Counted == { p \in Walked : ~IgnoredType(TypeAt(p)) }

\* the tallies of a finished run account for a set of resources: the three
\* counts add up to their number, the free ones are counted as free and
\* have no row, and every other one has one row
AccountsFor(resources) ==
    /\ pricedCount + freeCount + Cardinality(RowsWithoutDelta) = Cardinality(resources)
    /\ freeCount = Cardinality({ p \in resources : TypeAt(p) \in FreeTypes(resourceMap) })
    /\ \A p \in resources :
          Cardinality(RowsOf(p)) = (IF TypeAt(p) \in FreeTypes(resourceMap) THEN 0 ELSE 1)

\* C26 as stated: the tallies of a finished run account for every resource
\* change of the stacks with differences: none is dropped.
AccountingOfAll == [](pc = "done" => AccountsFor(Walked))

\* C26 as amended: the tallies of a finished run account for the resource
\* changes of the stacks with differences whose type is neither "Unknown"
\* nor begins with an underscore; the others have no row and no tally.
Accounting ==
    [](pc = "done" =>
          /\ AccountsFor(Counted)
          /\ \A p \in Walked \ Counted : RowsOf(p) = { }
          /\ Len(rows) = Cardinality(Counted) - freeCount)

\* a finished run over a resource of type Unknown, which is passed over,
\* and an instance that is priced: one resource is accounted for, of two
AccountingWitness ==
    /\ pc = "done"
    /\ Cardinality(Walked) = 2
    /\ Cardinality(Counted) = 1
    /\ \E p \in Walked : TypeAt(p) = UnknownType
    /\ pricedCount = 1 /\ freeCount = 0 /\ RowsWithoutDelta = { }
    /\ Len(rows) = 1

\* the rows that have a delta
RowsWithDelta == { i \in 1..Len(rows) : rows[i].delta # Null }

\* C27: pricedCount is at every point the number of the rows that have a
\* delta; the step that emits a row adds one to it when a lookup of the
\* resource returned a quote, which is when the row has a delta, also when
\* both lookups of an UPDATE did, and adds nothing otherwise; no other step
\* changes it.
PricedCountOfRows ==
    /\ [](pricedCount = Cardinality(RowsWithDelta))
    /\ [][ IF rows' # rows
           THEN /\ Len(rows') = Len(rows) + 1
                /\ (NewRow.delta # Null) <=> Quoted(NewRow.id)
                /\ pricedCount' = pricedCount + (IF Quoted(NewRow.id) THEN 1 ELSE 0)
           ELSE pricedCount' = pricedCount ]_vars

\* a finished run over an UPDATE whose two lookups both returned a quote
\* and a resource without a rule: pricedCount is 1
PricedCountOfRowsWitness ==
    /\ pc = "done"
    /\ Len(rows) = 2
    /\ rows[1].action = "UPDATE" /\ rows[1].before # Null /\ rows[1].after # Null
    /\ Cardinality({ n \in 1..Len(returns) : returns[n].id = rows[1].id /\ returns[n].price # Null }) = 2
    /\ rows[2].delta = Null
    /\ pricedCount = 1

\* the pair a key of the cache stands for
PairOfKey(k) == << k.serviceCode, FilterSet(k.filters) >>

\* the keys of the cache for a pair
KeysFor(pair) == { k \in DOMAIN priceCache : PairOfKey(k) = pair }

\* C28: a key that is in the cache stays in it with the outcome it has, a
\* quote or none; no request is sent for a pair that has a key in the
\* cache; and every lookup that has returned has its pair in the cache under
\* one key, with the outcome it returned, so that the lookups of one pair
\* all return the same quote or all return none.
CacheStable ==
    /\ [][ /\ \A k \in DOMAIN priceCache :
                 k \in DOMAIN priceCache' /\ priceCache'[k] = priceCache[k]
           /\ calls' # calls =>
                 /\ Len(calls') = Len(calls) + 1
                 /\ KeysFor(PairOfCall(calls'[Len(calls')])) = { } ]_vars
    /\ [](\A n \in 1..Len(returns) :
             /\ Cardinality(KeysFor(PairOf(returns[n]))) = 1
             /\ \A k \in KeysFor(PairOf(returns[n])) : priceCache[k] = returns[n].price)

\* a finished run over two resources of one pair whose only request failed:
\* the cache holds the pair without a quote, and neither row has a cost
CacheStableWitness ==
    /\ pc = "done"
    /\ Len(returns) = 2
    /\ returns[1].id # returns[2].id
    /\ PairOf(returns[1]) = PairOf(returns[2])
    /\ returns[1].price = Null /\ returns[2].price = Null
    /\ Len(calls) = 1 /\ Len(warnings) = 1
    /\ Cardinality(DOMAIN priceCache) = 1
    /\ Len(rows) = 2 /\ rows[1].delta = Null /\ rows[2].delta = Null

\* the step that appends the row of an UPDATE whose two lookups were for
\* one pair and returned a quote
SamePairUpdate ==
    /\ RowStep("UPDATE")
    /\ PairOf(ReturnBeforeLast) = PairOf(LastReturn)
    /\ ReturnBeforeLast.price # Null

\* C29: the row of an UPDATE whose old-direction and new-direction lookups
\* were for the same service code and filters, and returned a quote, has a
\* before and an after that are equal and not null and a delta of 0, not
\* null; the step adds one to pricedCount and leaves totalDelta as it is;
\* and one request, not two, has been sent for the pair.
UnchangedUpdate ==
    [][SamePairUpdate =>
          /\ ReturnBeforeLast.id = << si, ri >> /\ ~ReturnBeforeLast.useNew
          /\ LastReturn.id = << si, ri >> /\ LastReturn.useNew
          /\ LastReturn.price = ReturnBeforeLast.price
          /\ Len(rows') = Len(rows) + 1
          /\ NewRow.before # Null /\ NewRow.after = NewRow.before
          /\ NewRow.delta = << 0 >>
          /\ pricedCount' = pricedCount + 1
          /\ totalDelta' = totalDelta
          /\ Cardinality(CallsFor(PairOf(LastReturn))) = 1]_vars

\* a finished run over an instance whose tags changed: both lookups were
\* for the instances under Linux, one request was sent, and the row has the
\* same before and after and a delta of 0
UnchangedUpdateWitness ==
    /\ pc = "done"
    /\ Len(rows) = 1
    /\ rows[1].action = "UPDATE" /\ rows[1].detail = ""
    /\ Len(returns) = 2 /\ PairOf(returns[1]) = PairOf(returns[2])
    /\ rows[1].before = << 84 * 730 >> /\ rows[1].after = << 84 * 730 >>
    /\ rows[1].delta = << 0 >>
    /\ Len(calls) = 1
    /\ pricedCount = 1 /\ totalDelta = 0
    /\ output[1].markdown[1].unmapped = 0

\* the lookups that have returned for the resource at a position
LookupsOf(p) == { n \in 1..Len(returns) : returns[n].id = p }

\* every resource of the report, of whatever stack
AllResources ==
    UNION { { << s, r >> : r \in 1..Len(diffData.stacks[s].resources) } :
            s \in 1..Len(diffData.stacks) }

\* the run is over: the markdown is printed, the process has exited on
\* inputs that do not parse, or main has ended with an error
Finished == pc \in {"done", "exit", "failed"}

\* C30: a run that is carried on, with every request answered or failed,
\* is over at some point; it prints nothing before and one result when it
\* is over, the markdown or an error; and no more than two lookups are made,
\* and no more than two requests sent, for any resource.
Termination ==
    /\ <>Finished
    /\ [](IF Finished
           THEN /\ Len(output) = 1
                /\ (output[1].markdown = Null) # (output[1].error = Null)
           ELSE output = << >>)
    /\ [](/\ \A p \in AllResources : Cardinality(LookupsOf(p)) <= 2
          /\ \A n \in 1..Len(returns) : returns[n].id \in AllResources
          /\ Len(calls) <= Len(returns) + (IF pc = "await" THEN 1 ELSE 0))

\* a finished run over two stacks, one passed over, and an UPDATE whose
\* two lookups each sent a request: one result, the markdown
TerminationWitness ==
    /\ Finished
    /\ Len(diffData.stacks) = 2
    /\ ~Flagged(1)
    /\ \E p \in AllResources : Cardinality(LookupsOf(p)) = 2
    /\ Len(calls) = 2
    /\ Len(output) = 1 /\ output[1].markdown # Null /\ output[1].error = Null

====
